---- MODULE Spec2Model ----
(***************************************************************************)
(* Model of the streaming execution session of the playground's websocket  *)
(* endpoint (ui/src/server_axum/websocket.rs): the session loop            *)
(* (handle_core), the CoordinatorManager, and the execute job driver       *)
(* (handle_execute / handle_execute_inner).                                *)
(*                                                                         *)
(* The session loop is one sequential process whose position is pc.  Every *)
(* job task is a process of its own, running on the work-stealing pool, so *)
(* its steps interleave freely with the loop's.  The backend and the peer  *)
(* are the environment.                                                    *)
(***************************************************************************)
EXTENDS Integers, Sequences, FiniteSets, TLC

\* ---------------------------------------------------------------- bounds
MaxJobs == 3        \* execute requests the peer sends in one session
MaxBad == 3         \* text frames that do not deserialize as a request
MaxChunks == 2      \* output chunks the backend produces in one session
MaxFaults == 2      \* faults: an invalid request, a failing begin_execute, a task panic,
                    \* an execution ending in Err, a failing backend idle()
MaxInputs == 3      \* inputs of all these kinds together in one session
MaxIdle == 2        \* the count of backend idle() calls in one silent period saturates here
IdleTicks == 2      \* steps of the clock that make up IDLE_TIMEOUT

\* ------------------------------------------------------ program constants
N_PARALLEL == 2
ChannelCapacity == 3
ServerMeta == -1
HandshakeMeta == 0

Jobs == 1..MaxJobs
NoJob == 0

Min(a, b) == IF a < b THEN a ELSE b

\* ------------------------------------------------------------- variables
VARIABLES
    pc,          \* position of handle_core
    hs,          \* the first inbound event, as connect_handshake received it
    sent,        \* frames written to the socket, in order
    chan,        \* the Response Channel mpsc::channel(3): queued Result<MessageResponse>
    chanOpen,    \* the receiver rx is alive
    pending,     \* the value the session loop is enqueueing with tx.send(..).await
    tasks,       \* CoordinatorManager.tasks: the JoinSet (jobs spawned and not yet joined)
    abortSlot,   \* CoordinatorManager.abort_handles[KIND_EXECUTE]
    permits,     \* free permits of CoordinatorManager.semaphore
    coordinator, \* the backend: none, created (Coordinator::new_docker), shutdown
    spawning,    \* the job tasks.spawn just registered, while spawn has not yet aborted the old one
    jpc,         \* position of each job task
    jnext,       \* where a job continues after its tx.send
    jmsg,        \* the response a job is sending
    jres,        \* the value handle_execute_inner returns
    jabort,      \* who requested the job's abort while it was live: none, spawn, shutdown
    jpermit,     \* the job holds a semaphore permit
    reqValid,    \* the job's wire request passes TryFrom<ExecuteRequest>
    exec,        \* the backend's ActiveExecution.task of the job
    stdout_rx,   \* chunks buffered in the job's stdout_rx
    stderr_rx,   \* chunks buffered in the job's stderr_rx
    outcome,     \* the Outcome handle_execute recorded with record_metric
    idleClock,   \* how much of IDLE_TIMEOUT has elapsed on the sleep of this loop iteration
    idles,       \* backend idle() calls since the last inbound frame (observer)
    nJobs, nBad, nChunks, nFaults

loopVars == <<pc, hs, sent, pending, spawning, idleClock, idles>>
chanVars == <<chan, chanOpen>>
mgrVars == <<tasks, abortSlot, permits, coordinator>>
jobVars == <<jpc, jnext, jmsg, jres, jabort, jpermit, reqValid, outcome>>
backVars == <<exec, stdout_rx, stderr_rx, nChunks>>
cntVars == <<nJobs, nBad, nFaults>>
vars == <<loopVars, chanVars, mgrVars, jobVars, backVars, cntVars>>

\* ---------------------------------------------------------------- values
\* A Result<MessageResponse> travelling through the Response Channel.
Resp(variant, meta, chunk, text) ==
    [ok |-> TRUE, variant |-> variant, meta |-> meta, chunk |-> chunk, text |-> text]

ErrResult(text) ==
    [ok |-> FALSE, variant |-> "Err", meta |-> NoJob, chunk |-> 0, text |-> text]

NoMsg == [ok |-> FALSE, variant |-> "None", meta |-> NoJob, chunk |-> 0, text |-> ""]

\* A text frame: the serde tag, the payload and the meta.
Frame(type, meta, chunk, text) ==
    [type |-> type, meta |-> meta, chunk |-> chunk, text |-> text]

create_server_meta == ServerMeta

\* error_to_response: an Error response carrying the error's text and the server meta.
error_to_response(e) ==
    [ok |-> TRUE, variant |-> "Error", meta |-> create_server_meta,
     chunk |-> 0, text |-> e.text]

\* The serde rename of each MessageResponse variant.
WireType(variant) ==
    CASE variant = "Error" -> "websocket/error"
      [] variant = "FeatureFlags" -> "featureFlags"
      [] variant = "ExecuteBegin" -> "output/execute/wsExecuteBegin"
      [] variant = "ExecuteStdout" -> "output/execute/wsExecuteStdout"
      [] variant = "ExecuteStderr" -> "output/execute/wsExecuteStderr"
      [] variant = "ExecuteEnd" -> "output/execute/wsExecuteEnd"
      [] OTHER -> "WEBSOCKET_ERROR"

response_to_message(r) == Frame(WireType(r.variant), r.meta, r.chunk, r.text)

\* What the outbound branch writes for a popped Result: resp.unwrap_or_else(error_to_response).
OutboundFrame(res) ==
    response_to_message(IF res.ok THEN res ELSE error_to_response(res))

\* The first inbound event the peer may produce.
HandshakeEvents == {"none", "error", "binary", "garbage", "flag_false", "accept"}

\* The text of a handshake frame.
HandshakeText(ev) ==
    Frame("websocket/connected", HandshakeMeta, 0,
          IF ev = "accept" THEN "iAccept:true" ELSE "iAccept:false")

\* Mutant: the test of i_accept_this_is_an_unsupported_api is missing.
HandshakeAcceptsAnyFlag(ev) == ev \in {"accept", "flag_false"}

\* connect_handshake's three tests: a text frame, that parses, with the flag set.
HandshakeAccepts(ev) == ev = "accept"

\* Mutant: a channel that hands out the newest message first.
EnqueueFront(q, m) == <<m>> \o q

\* mpsc: send appends at the tail, recv takes the head.
Enqueue(q, m) == Append(q, m)

HasCapacity == Len(chan) < ChannelCapacity

\* How many more inputs the environment may still produce, and how many chunks.
InputsLeft == MaxInputs - (nJobs + nBad + nChunks + nFaults)
FaultsLeft == Min(MaxFaults - nFaults, InputsLeft)
ChunksLeft == Min(MaxChunks - nChunks, InputsLeft)

\* ---------------------------------------------------------------- jobs
Terminal == {"done_ok", "done_err", "cancelled", "panicked"}

\* A spawned task whose future still exists: not finished and not actually cancelled.
Live(j) == jpc[j] \notin (Terminal \cup {"none"})

LiveJobs == {j \in Jobs : Live(j)}

\* Positions inside handler(coordinator), i.e. after the permit was acquired.
InHandler(j) == Live(j) /\ jpc[j] # "acquire"

\* Strong references to the Coordinator: the manager's and one per task future.
CoordinatorRefs == 1 + Cardinality(LiveJobs)

Init ==
    /\ pc = "handshake"
    /\ hs = "unset"
    /\ sent = <<>>
    /\ chan = <<>>
    /\ chanOpen = FALSE
    /\ pending = NoMsg
    /\ tasks = {}
    /\ abortSlot = NoJob
    /\ permits = N_PARALLEL
    /\ coordinator = "none"
    /\ spawning = NoJob
    /\ jpc = [j \in Jobs |-> "none"]
    /\ jnext = [j \in Jobs |-> "none"]
    /\ jmsg = [j \in Jobs |-> NoMsg]
    /\ jres = [j \in Jobs |-> "none"]
    /\ jabort = [j \in Jobs |-> "none"]
    /\ jpermit = [j \in Jobs |-> FALSE]
    /\ reqValid = [j \in Jobs |-> TRUE]
    /\ exec = [j \in Jobs |-> "none"]
    /\ stdout_rx = [j \in Jobs |-> <<>>]
    /\ stderr_rx = [j \in Jobs |-> <<>>]
    /\ outcome = [j \in Jobs |-> "none"]
    /\ idleClock = 0
    /\ idles = 0
    /\ nJobs = 0
    /\ nBad = 0
    /\ nChunks = 0
    /\ nFaults = 0


\* ------------------------------------------------- dropping a task future
\* Mutant: the permit guard is forgotten instead of dropped.
ReleasedPermitsNone(D) == 0

\* The permits that come back when the futures D are dropped: _permit lives in
\* the task's async block.
ReleasedPermits(D) == Cardinality({j \in D : jpermit[j]})

\* The job's future is gone (it returned, panicked or was cancelled): the permit
\* guard and the ActiveExecution it owned are dropped with it.
DropFuture(D) ==
    /\ jpermit' = [j \in Jobs |-> IF j \in D THEN FALSE ELSE jpermit[j]]
    /\ permits' = permits + ReleasedPermits(D)
    /\ exec' = [j \in Jobs |-> IF j \in D /\ exec[j] = "running" THEN "dropped" ELSE exec[j]]
    /\ stdout_rx' = [j \in Jobs |-> IF j \in D THEN <<>> ELSE stdout_rx[j]]
    /\ stderr_rx' = [j \in Jobs |-> IF j \in D THEN <<>> ELSE stderr_rx[j]]
    /\ jmsg' = [j \in Jobs |-> IF j \in D THEN NoMsg ELSE jmsg[j]]
    /\ jnext' = [j \in Jobs |-> IF j \in D THEN "none" ELSE jnext[j]]

\* The task ends in state st.
EndTask(j, st) ==
    /\ jpc' = [jpc EXCEPT ![j] = st]
    /\ DropFuture({j})

\* AbortHandle::abort on the tasks A.  A task that is not being polled (I) is
\* cancelled at once; a task in the middle of a poll keeps running until its next
\* suspension point and only carries the request.  Aborting a finished task does
\* nothing, so A holds live tasks only.
AbortTasks(A, I, who) ==
    /\ jabort' = [j \in Jobs |-> IF j \in A /\ jabort[j] = "none" THEN who ELSE jabort[j]]
    /\ jpc' = [j \in Jobs |-> IF j \in I THEN "cancelled" ELSE jpc[j]]
    /\ DropFuture(I)

\* Mutant: spawn replaces the slot and forgets to abort the old handle.
SpawnAbortsNothing(old) == {}

\* The tasks spawn aborts: the previous occupant of the slot, when it is still live.
SpawnAborts(old) == IF old # NoJob /\ Live(old) THEN {old} ELSE {}

\* ------------------------------------------------------- the session loop
\* connect_handshake
Handshake ==
    /\ pc = "handshake"
    /\ \E ev \in HandshakeEvents :
        /\ hs' = ev
        /\ IF HandshakeAccepts(ev)
           THEN \/ sent' = <<HandshakeText(ev)>> /\ pc' = "start"
                \/ sent' = sent /\ pc' = "done"           \* socket.send failed
           ELSE sent' = sent /\ pc' = "done"
    /\ UNCHANGED <<pending, spawning, idleClock, idles, chanVars, mgrVars, jobVars,
                   backVars, cntVars>>

\* handle_core lines 294-308: the channel, the FeatureFlags enqueue, the manager.
FeatureFlagsResponse == Resp("FeatureFlags", create_server_meta, 0, "")

\* Mutant: the FeatureFlags response is not enqueued.
InitialQueueEmpty == <<>>

\* The channel right after tx.send(Ok(ff)).
InitialQueue == Enqueue(<<>>, FeatureFlagsResponse)

Start ==
    /\ pc = "start"
    /\ chanOpen' = TRUE
    /\ chan' = InitialQueue
    /\ coordinator' = "created"
    /\ pc' = "select"
    /\ UNCHANGED <<hs, sent, pending, spawning, idleClock, idles, tasks, abortSlot,
                   permits, jobVars, backVars, cntVars>>

\* break, then lines 382-383: drop((tx, rx, socket)) and the first poll of
\* manager.shutdown(), in which self.tasks.shutdown() aborts every task.  The loop
\* does not await in between.
Terminate ==
    /\ chanOpen' = FALSE
    /\ chan' = <<>>
    /\ pc' = "joining"
    /\ idleClock' = 0 /\ idles' = 0                       \* the sleep is dropped
    /\ LET A == tasks \cap LiveJobs IN
        \E I \in SUBSET A : AbortTasks(A, I, "shutdown")
    /\ UNCHANGED <<hs, sent, spawning, tasks, abortSlot, coordinator, jres,
                   reqValid, outcome, nChunks, cntVars>>

\* request = socket.recv(): None, the browser disconnected
RecvNone ==
    /\ pc = "select"
    /\ Terminate
    /\ UNCHANGED pending

\* Every pass of the loop builds a new time::sleep(IDLE_TIMEOUT) at line 365.
NewIdleSleep == 0

\* A non-text frame (continue) or a transport error (recorded): the loop goes round.
RecvNoise ==
    /\ pc = "select"
    /\ idleClock' = NewIdleSleep
    /\ idles' = 0
    /\ UNCHANGED <<pc, hs, sent, pending, spawning, chanVars, mgrVars, jobVars,
                   backVars, cntVars>>

\* handle_msg, Err(e): the frame does not deserialize; tx.send(Err(e)).await begins.
RecvBad ==
    /\ pc = "select"
    /\ nBad < MaxBad /\ InputsLeft > 0
    /\ nBad' = nBad + 1
    /\ pending' = ErrResult("Deserialization")
    /\ pc' = "enqueue"
    /\ idleClock' = NewIdleSleep
    /\ idles' = 0
    /\ UNCHANGED <<hs, sent, spawning, chanVars, mgrVars, jobVars, backVars, nJobs, nFaults>>

\* handle_msg, Ok(ExecuteRequest): manager.spawn up to self.tasks.spawn(..).
RecvExecute ==
    /\ pc = "select"
    /\ nJobs < MaxJobs /\ InputsLeft > 0
    /\ \E valid \in BOOLEAN :
        LET j == nJobs + 1 IN
        /\ valid \/ (InputsLeft > 1 /\ FaultsLeft > 0)
        /\ nFaults' = IF valid THEN nFaults ELSE nFaults + 1
        /\ nJobs' = j
        /\ reqValid' = [reqValid EXCEPT ![j] = valid]
        /\ jpc' = [jpc EXCEPT ![j] = "acquire"]
        /\ tasks' = tasks \cup {j}
        /\ spawning' = j
        /\ pc' = "spawn"
    /\ idleClock' = NewIdleSleep
    /\ idles' = 0
    /\ UNCHANGED <<hs, sent, pending, chanVars, abortSlot, permits, coordinator,
                   jnext, jmsg, jres,
                   jabort, jpermit, outcome, backVars, nBad>>

\* manager.spawn lines 235-242: replace the slot, abort the old handle.
SpawnReplace ==
    /\ pc = "spawn"
    /\ abortSlot' = spawning
    /\ spawning' = NoJob
    /\ pc' = "select"
    /\ LET A == SpawnAborts(abortSlot) IN
        \E I \in SUBSET A : AbortTasks(A, I, "spawn")
    /\ UNCHANGED <<hs, sent, pending, idleClock, idles, chanVars, tasks, coordinator,
                   jres, reqValid, outcome, nChunks, cntVars>>

\* resp = rx.recv(): pop, convert, socket.send.
Outbound ==
    /\ pc = "select"
    /\ chan # <<>>
    /\ \/ /\ chan' = Tail(chan)
          /\ sent' = Append(sent, OutboundFrame(Head(chan)))
          /\ idleClock' = NewIdleSleep
          /\ UNCHANGED <<pc, hs, pending, spawning, idles, chanOpen, mgrVars, jobVars,
                         backVars, cntVars>>
       \/ Terminate /\ UNCHANGED pending                  \* socket.send failed

\* What a panicking task may carry as payload: a String, a &str, anything else.
PanicPayloads == {"PanicString", "PanicStr", "PanicOther"}

\* Lines 350-356: the text of the payload ("boom") when it downcasts to String or
\* to &str, a fixed text otherwise.
PanicText(payload) ==
    IF payload \in {"PanicString", "PanicStr"} THEN "boom" ELSE "An unknown panic occurred"

\* What the job completion branch reports: only a panic gets past the two let-else.
JoinReports(j) == jpc[j] = "panicked"

\* Some(task) = manager.join_next()
JoinNext ==
    /\ pc = "select"
    /\ \E j \in tasks :
        /\ jpc[j] \in Terminal
        /\ tasks' = tasks \ {j}
        /\ IF JoinReports(j)
           THEN pending' = ErrResult(PanicText(jres[j])) /\ pc' = "enqueue"
           ELSE pending' = pending /\ pc' = pc
    /\ idleClock' = NewIdleSleep
    /\ UNCHANGED <<hs, sent, spawning, idles, chanVars, abortSlot, permits, coordinator,
                   jobVars, backVars, cntVars>>

\* What manager.idle() can return: Arc::get_mut needs the only reference.
IdleResults == IF CoordinatorRefs > 1 THEN {"outstanding"} ELSE {"ok", "idle_failed"}

\* The CoordinatorManagerError of a failed idle(), under StreamingCoordinatorIdle.
IdleErrorText(r) ==
    IF r = "outstanding" THEN "OutstandingCoordinatorIdle" ELSE "Idle"

\* Mutant: the idle branch has no precondition.
IdleArmedAlways == TRUE

\* The precondition of the idle branch: if manager.is_empty()
IdleArmed == tasks = {}

\* Time passes while the loop waits in the select with the idle sleep armed.
Tick ==
    /\ pc = "select"
    /\ IdleArmed
    /\ idleClock < IdleTicks
    /\ idleClock' = idleClock + 1
    /\ UNCHANGED <<pc, hs, sent, pending, spawning, idles, chanVars, mgrVars, jobVars,
                   backVars, cntVars>>

\* _ = time::sleep(IDLE_TIMEOUT), if manager.is_empty()
IdleTimer ==
    /\ pc = "select"
    /\ IdleArmed
    /\ idleClock = IdleTicks
    /\ idleClock' = NewIdleSleep
    /\ idles' = Min(idles + 1, MaxIdle)
    /\ \E r \in IdleResults :
        IF r = "ok"
        THEN UNCHANGED <<pc, pending, nFaults>>
        ELSE /\ FaultsLeft > 0
             /\ pending' = ErrResult(IdleErrorText(r))
             /\ pc' = "enqueue"
             /\ nFaults' = nFaults + 1
    /\ UNCHANGED <<hs, sent, spawning, chanVars, mgrVars, jobVars, backVars, nJobs, nBad>>

\* _ = &mut session_timeout
SessionTimeout ==
    /\ pc = "select"
    /\ Terminate
    /\ UNCHANGED pending

\* Mutant: try_send in place of send, which also fails on a full channel.
EnqueueFailedWhenFull == ~chanOpen \/ ~HasCapacity

\* tx.send(..).await.is_err(): the receiver is gone.
EnqueueFailed == ~chanOpen

\* handle_msg ignores a failed send (.ok()); the panic and idle branches break on it.
BreaksOnFailedEnqueue(res) == res.text # "Deserialization"

\* The session loop's own tx.send(..).await completes once the channel has room.
LoopEnqueue ==
    /\ pc = "enqueue"
    /\ IF EnqueueFailed
       THEN IF BreaksOnFailedEnqueue(pending)
            THEN Terminate
            ELSE /\ pc' = "select"
                 /\ UNCHANGED <<idleClock, idles, chanVars, mgrVars, jobVars, backVars>>
       ELSE /\ HasCapacity
            /\ chan' = Enqueue(chan, pending)
            /\ pc' = "select"
            /\ UNCHANGED <<idleClock, idles, chanOpen, mgrVars, jobVars, backVars>>
    /\ pending' = NoMsg
    /\ UNCHANGED <<hs, sent, spawning, cntVars>>

\* Mutant: shutdown aborts the tasks and does not wait for them.
AllJoinedAtOnce == TRUE

\* self.tasks.shutdown().await returns once every task of the set has ended.
AllJoined == \A j \in tasks : jpc[j] \in Terminal

\* manager.shutdown() awaits every task; after that Arc::into_inner and the backend's shutdown.
ShutdownJoin ==
    /\ pc = "joining"
    /\ AllJoined
    /\ tasks' = {}
    /\ coordinator' = IF CoordinatorRefs = 1 THEN "shutdown" ELSE "leaked"
    /\ pc' = "done"
    /\ UNCHANGED <<hs, sent, pending, spawning, idleClock, idles, chanVars, abortSlot,
                   permits, jobVars, backVars, cntVars>>


\* ------------------------------------------------------------ job tasks
\* A job task takes a step only while its future exists.  A task whose abort was
\* requested while it was being polled runs on as long as nothing makes it wait.

\* Mutant: the task does not wait for a permit.
CanAcquireAlways == TRUE

\* let _permit = semaphore.acquire().await
CanAcquire == permits > 0

\* Mutant: the wire request is passed on without validation.
RequestValidAlways(j) == TRUE

\* coordinator::ExecuteRequest::try_from(req) is Ok.
RequestValid(j) == reqValid[j]

\* The task's first poll: the permit, then handle_execute line 475,
\* coordinator::ExecuteRequest::try_from(req).context(BadRequestSnafu)?
JobAcquire(j) ==
    /\ jpc[j] = "acquire"
    /\ CanAcquire
    /\ IF RequestValid(j)
       THEN /\ permits' = permits - 1
            /\ jpermit' = [jpermit EXCEPT ![j] = TRUE]
            /\ jpc' = [jpc EXCEPT ![j] = "begin_execute"]
            /\ UNCHANGED jres
       ELSE /\ jres' = [jres EXCEPT ![j] = "BadRequest"]
            /\ jpc' = [jpc EXCEPT ![j] = "done_err"]
            /\ UNCHANGED <<permits, jpermit>>
    /\ UNCHANGED <<loopVars, chanVars, tasks, abortSlot, coordinator, jnext, jmsg, jabort,
                   reqValid, outcome, backVars, cntVars>>

BeginMsg(j) == Resp("ExecuteBegin", j, 0, "")

\* coordinator.begin_execute(req).await: the backend answers with an ActiveExecution
\* or an error, or the task panics.  The call waits for the backend, so a task whose
\* abort is requested does not get past it.
JobBeginExecute(j) ==
    /\ jpc[j] = "begin_execute"
    /\ jabort[j] = "none"
    /\ \/ /\ exec' = [exec EXCEPT ![j] = "running"]
          /\ jmsg' = [jmsg EXCEPT ![j] = BeginMsg(j)]
          /\ jnext' = [jnext EXCEPT ![j] = "select"]
          /\ jpc' = [jpc EXCEPT ![j] = "send"]
          /\ UNCHANGED <<jres, jpermit, permits, stdout_rx, stderr_rx, nFaults>>
       \/ /\ FaultsLeft > 0
          /\ nFaults' = nFaults + 1
          /\ jres' = [jres EXCEPT ![j] = "Begin"]
          /\ jpc' = [jpc EXCEPT ![j] = "record"]
          /\ UNCHANGED <<exec, jmsg, jnext, jpermit, permits, stdout_rx, stderr_rx>>
       \/ /\ FaultsLeft > 0
          /\ nFaults' = nFaults + 1
          /\ EndTask(j, "panicked")
          /\ \E p \in PanicPayloads : jres' = [jres EXCEPT ![j] = p]
    /\ UNCHANGED <<loopVars, chanVars, tasks, abortSlot, coordinator, jabort, reqValid, outcome,
                   nChunks, nJobs, nBad>>

\* tx.send(..).await and abandon_if_closed!: the response is enqueued when the
\* channel has room, the send fails when the receiver is gone, and waits otherwise.
JobSend(j) ==
    /\ jpc[j] = "send"
    /\ IF chanOpen
       THEN /\ HasCapacity
            /\ chan' = Enqueue(chan, jmsg[j])
            /\ jpc' = [jpc EXCEPT ![j] = jnext[j]]
            /\ UNCHANGED jres
       ELSE /\ chan' = chan
            /\ jres' = [jres EXCEPT ![j] = "Abandoned"]
            /\ jpc' = [jpc EXCEPT ![j] = "record"]
    /\ jmsg' = [jmsg EXCEPT ![j] = NoMsg]
    /\ jnext' = [jnext EXCEPT ![j] = "none"]
    /\ UNCHANGED <<loopVars, chanOpen, mgrVars, jabort, jpermit, reqValid,
                   outcome, backVars, cntVars>>

StdoutMsg(j, c) == Resp("ExecuteStdout", j, c, "")
StderrMsg(j, c) == Resp("ExecuteStderr", j, c, "")

\* The chunk ids 'from+1 .. from+n': chunks are numbered in arrival order.
ChunkRun(from, n) == [i \in 1..n |-> from + i]

\* The select! of lines 527-541.  What the backend has ready when the task polls
\* is the environment's choice: the task's final status (Ok(ExecuteResponse), whose
\* fields are payload, or Err) with some chunks still buffered in stdout_rx and stderr_rx, or the next
\* stdout chunk, or the next stderr chunk.
JobSelect(j) ==
    /\ jpc[j] = "select"
    /\ \/ /\ \E st \in {"completed", "error"} :
                /\ st = "error" => FaultsLeft > 0
                /\ exec' = [exec EXCEPT ![j] = st]
                /\ nFaults' = IF st = "error" THEN nFaults + 1 ELSE nFaults
          /\ \E a, b \in 0..ChunksLeft :
                /\ a + b <= ChunksLeft - (nFaults' - nFaults)
                /\ stdout_rx' = [stdout_rx EXCEPT ![j] = ChunkRun(nChunks, a)]
                /\ stderr_rx' = [stderr_rx EXCEPT ![j] = ChunkRun(nChunks + a, b)]
                /\ nChunks' = nChunks + a + b
          /\ jpc' = [jpc EXCEPT ![j] = "drain_stdout"]
          /\ UNCHANGED <<jmsg, jnext>>
       \/ /\ ChunksLeft > 0
          /\ nChunks' = nChunks + 1
          /\ jmsg' = [jmsg EXCEPT ![j] = StdoutMsg(j, nChunks + 1)]
          /\ jnext' = [jnext EXCEPT ![j] = "select"]
          /\ jpc' = [jpc EXCEPT ![j] = "send"]
          /\ UNCHANGED <<exec, stdout_rx, stderr_rx, nFaults>>
       \/ /\ ChunksLeft > 0
          /\ nChunks' = nChunks + 1
          /\ jmsg' = [jmsg EXCEPT ![j] = StderrMsg(j, nChunks + 1)]
          /\ jnext' = [jnext EXCEPT ![j] = "select"]
          /\ jpc' = [jpc EXCEPT ![j] = "send"]
          /\ UNCHANGED <<exec, stdout_rx, stderr_rx, nFaults>>
    /\ UNCHANGED <<loopVars, chanVars, mgrVars, jres, jabort, jpermit, reqValid,
                   outcome, nJobs, nBad>>

\* Mutant: 'if let' in place of 'while let': one chunk, then on to stderr.
AfterStdoutChunkOnce == "drain_stderr"

\* Where the driver goes after a drained stdout chunk: round the while let.
AfterStdoutChunk == "drain_stdout"

\* while let Some(Some(stdout)) = stdout_rx.recv().now_or_never()
JobDrainStdout(j) ==
    /\ jpc[j] = "drain_stdout"
    /\ IF stdout_rx[j] # <<>>
       THEN /\ jmsg' = [jmsg EXCEPT ![j] = StdoutMsg(j, Head(stdout_rx[j]))]
            /\ stdout_rx' = [stdout_rx EXCEPT ![j] = Tail(@)]
            /\ jnext' = [jnext EXCEPT ![j] = AfterStdoutChunk]
            /\ jpc' = [jpc EXCEPT ![j] = "send"]
       ELSE /\ jpc' = [jpc EXCEPT ![j] = "drain_stderr"]
            /\ UNCHANGED <<jmsg, jnext, stdout_rx>>
    /\ UNCHANGED <<loopVars, chanVars, mgrVars, jres, jabort, jpermit, reqValid,
                   outcome, exec, stderr_rx, nChunks, cntVars>>

\* Completed(Outcome::from_success(&status)): Success or ErrorUser, by the payload.
OutcomeOfStatus(st) == "Completed"

EndMsg(j, st) == Resp("ExecuteEnd", j, 0, st)

\* status.context(EndSnafu)?: an Err status leaves the driver here.
StatusIsErr(st) == st = "error"

\* while let Some(Some(stderr)) = stderr_rx.recv().now_or_never(), and after it
\* lines 554-571: status.context(EndSnafu)?, then the ExecuteEnd send.
JobDrainStderr(j) ==
    /\ jpc[j] = "drain_stderr"
    /\ IF stderr_rx[j] # <<>>
       THEN /\ jmsg' = [jmsg EXCEPT ![j] = StderrMsg(j, Head(stderr_rx[j]))]
            /\ stderr_rx' = [stderr_rx EXCEPT ![j] = Tail(@)]
            /\ jnext' = [jnext EXCEPT ![j] = "drain_stderr"]
            /\ jpc' = [jpc EXCEPT ![j] = "send"]
            /\ UNCHANGED jres
       ELSE IF StatusIsErr(exec[j])
       THEN /\ jres' = [jres EXCEPT ![j] = "End"]
            /\ jpc' = [jpc EXCEPT ![j] = "record"]
            /\ UNCHANGED <<jmsg, jnext, stderr_rx>>
       ELSE /\ jres' = [jres EXCEPT ![j] = OutcomeOfStatus(exec[j])]
            /\ jmsg' = [jmsg EXCEPT ![j] = EndMsg(j, exec[j])]
            /\ jnext' = [jnext EXCEPT ![j] = "record"]
            /\ jpc' = [jpc EXCEPT ![j] = "send"]
            /\ UNCHANGED stderr_rx
    /\ UNCHANGED <<loopVars, chanVars, mgrVars, jabort, jpermit, reqValid,
                   outcome, exec, stdout_rx, nChunks, cntVars>>

\* Mutant: Ok(Abandoned) is recorded like an error of the server.
RecordedOutcomeNoAbandon(res) ==
    IF res \in {"Abandoned", "Begin", "End"} THEN "ErrorServer" ELSE res

\* handle_execute lines 483-492: the outcome recorded for what the inner driver returned.
RecordedOutcome(res) ==
    CASE res = "Abandoned" -> "Abandoned"
      [] res \in {"Begin", "End"} -> "ErrorServer"
      [] OTHER -> res

JobRecord(j) ==
    /\ jpc[j] = "record"
    /\ outcome' = [outcome EXCEPT ![j] = RecordedOutcome(jres[j])]
    /\ EndTask(j, IF jres[j] \in {"Begin", "End"} THEN "done_err" ELSE "done_ok")
    /\ UNCHANGED <<loopVars, chanVars, tasks, abortSlot, coordinator, jres, jabort, reqValid,
                   nChunks, cntVars>>

\* The step the task is at may have to wait: for a permit, for the backend, for
\* room in the channel.
WouldSuspend(j) ==
    \/ jpc[j] = "acquire" /\ ~CanAcquire
    \/ jpc[j] = "begin_execute"
    \/ jpc[j] = "send" /\ chanOpen /\ ~HasCapacity
    \/ jpc[j] = "select"

\* A task whose abort was requested during a poll is cancelled when that poll
\* reaches a suspension point.
JobCancel(j) ==
    /\ Live(j)
    /\ jabort[j] # "none"
    /\ WouldSuspend(j)
    /\ EndTask(j, "cancelled")
    /\ UNCHANGED <<loopVars, chanVars, tasks, abortSlot, coordinator, jres, jabort, reqValid,
                   outcome, nChunks, cntVars>>

\* ------------------------------------------------------- specification
LoopNext ==
    \/ Handshake \/ Start
    \/ RecvNone \/ RecvNoise \/ RecvBad \/ RecvExecute \/ SpawnReplace
    \/ Outbound \/ JoinNext \/ Tick \/ IdleTimer \/ SessionTimeout \/ LoopEnqueue
    \/ ShutdownJoin

JobNext(j) ==
    \/ JobAcquire(j) \/ JobBeginExecute(j) \/ JobSend(j)
    \/ JobSelect(j) \/ JobDrainStdout(j) \/ JobDrainStderr(j) \/ JobRecord(j)
    \/ JobCancel(j)

Next == LoopNext \/ \E j \in Jobs : JobNext(j)

Spec == Init /\ [][Next]_vars

\* Fairness.  The runtime keeps polling the session loop and every ready task;
\* tokio::select! picks a ready branch at random, so a branch that is ready again
\* and again is eventually taken: the session timer in particular.  Nothing is
\* assumed of the peer.
Fairness ==
    /\ WF_vars(Start) /\ WF_vars(SpawnReplace) /\ WF_vars(LoopEnqueue)
    /\ WF_vars(ShutdownJoin)
    /\ SF_vars(Outbound) /\ SF_vars(JoinNext) /\ SF_vars(SessionTimeout)
    /\ \A j \in Jobs : WF_vars(JobNext(j))

FairSpec == Spec /\ Fairness

\* The runtime keeps polling every ready job task; nothing is assumed of the
\* session loop or of the peer.
TaskFairness == \A j \in Jobs : WF_vars(JobNext(j))

PermitSpec == Spec /\ TaskFairness

\* ------------------------------------------------------------ observers
TBegin == WireType("ExecuteBegin")
TEnd == WireType("ExecuteEnd")
TStdout == WireType("ExecuteStdout")
TStderr == WireType("ExecuteStderr")
TError == WireType("Error")
TFlags == WireType("FeatureFlags")
ExecuteTypes == {TBegin, TEnd, TStdout, TStderr}

\* The frames sent and, behind them, the frames the queued responses will become.
Pipeline == sent \o [i \in 1..Len(chan) |-> OutboundFrame(chan[i])]

\* The places of job j's frames of one type in a sequence of frames.
Places(seq, type, j) == {i \in 1..Len(seq) : seq[i].type = type /\ seq[i].meta = j}

SessionRunning == pc \in {"select", "spawn", "enqueue"}

\* The task returned by itself; nobody had asked for its abort.
FinishedUnaborted(j) == jpc[j] \in {"done_ok", "done_err"} /\ jabort[j] = "none"

\* ------------------------------------------------------------------ C1
\* C1: no job has two ExecuteBegin or two ExecuteEnd, and a job whose
\* ExecuteBegin went out and that was neither preempted nor aborted by shutdown
\* gets its ExecuteEnd, also when its execution task ends with an error status.
\* Stated on the running session, once the job's task has returned; an
\* ExecuteEnd still queued in the Response Channel counts as on its way.
C1_BeginThenEnd ==
    /\ \A j \in Jobs : /\ Cardinality(Places(sent, TBegin, j)) <= 1
                       /\ Cardinality(Places(sent, TEnd, j)) <= 1
    /\ \A j \in Jobs :
        (SessionRunning /\ FinishedUnaborted(j) /\ Places(sent, TBegin, j) # {})
            => Places(Pipeline, TEnd, j) # {}

\* ------------------------------------------------------------------ C2
\* The error with text t is on its way to the peer: being enqueued by the loop,
\* queued in the Response Channel, or sent as a websocket/error frame.
ErrorReported(t) ==
    \/ pending.variant = "Err" /\ pending.text = t
    \/ \E i \in 1..Len(chan) : ~chan[i].ok /\ chan[i].text = t
    \/ \E i \in 1..Len(sent) : sent[i].type = TError /\ sent[i].text = t

\* C2 as claimed: once the session loop has taken from the task set a job that
\* ended with an error (BadRequest, Begin or End), that error is enqueued on the
\* Response Channel or already sent as websocket/error, and the session is open.
C2_JobErrorReported ==
    \A j \in Jobs :
        (jpc[j] = "done_err" /\ j \notin tasks /\ SessionRunning)
            => ErrorReported(jres[j])

\* ------------------------------------------------------------------ C3
\* C3 as claimed: before a newer job's ExecuteBegin is on the socket every older
\* job that is still live has had its abort requested, and from the moment spawn
\* preempted a live job no ExecuteEnd of that job is sent.
C3_PreemptedJobSilent ==
    /\ [](\A j, k \in Jobs :
            (j < k /\ Places(sent, TBegin, k) # {} /\ Live(j)) => jabort[j] # "none")
    /\ [][\A j \in Jobs :
            jabort[j] = "spawn" => Places(sent', TEnd, j) = Places(sent, TEnd, j)]_vars

PermitHolders == {j \in Jobs : jpermit[j]}

\* C5: at most N_PARALLEL tasks hold a permit, the free and the held permits add
\* up to N_PARALLEL, only live tasks hold one, and a task is inside its handler
\* only while it holds one.
C5_PermitsBounded ==
    /\ Cardinality(PermitHolders) <= N_PARALLEL
    /\ permits >= 0
    /\ permits + Cardinality(PermitHolders) = N_PARALLEL
    /\ \A j \in Jobs : jpermit[j] => Live(j)
    /\ \A j \in Jobs : InHandler(j) => jpermit[j]

\* Both permits are held and a third task waits for one.
C5_Witness ==
    /\ Cardinality(PermitHolders) = N_PARALLEL
    /\ \E j \in Jobs : jpc[j] = "acquire"

\* ------------------------------------------------------------------ C6
\* C6: once the handshake is accepted the session terminates: the loop exits and
\* shutdown has run.  The session timer is a branch of the select, so under
\* fairness it is taken whenever the loop keeps coming back to the select.
C6_SessionTerminates == (pc = "start") ~> (pc = "done")

\* ------------------------------------------------------------------ C7
\* C7: nothing is sent before the handshake is accepted; when the first inbound
\* event is anything but a text frame that parses with the flag set, the session
\* ends having sent nothing, created no backend and spawned no job; the first
\* frame sent is the received handshake text itself.
C7_SilentUntilAccepted ==
    /\ pc = "handshake" => sent = <<>>
    /\ hs # "accept" =>
          /\ sent = <<>>
          /\ coordinator = "none"
          /\ nJobs = 0 /\ tasks = {}
          /\ pc \in {"handshake", "done"}
    /\ sent # <<>> =>
          /\ hs = "accept"
          /\ sent[1] = Frame("websocket/connected", HandshakeMeta, 0, "iAccept:true")

\* A handshake with the flag false was received and the session is over.
C7_Witness == hs = "flag_false" /\ pc = "done" /\ sent = <<>>

\* ------------------------------------------------------------------ C8
FlagsPlaces == {i \in 1..Len(sent) : sent[i].type = TFlags}

\* C8 as claimed: an accepted session that is over has sent exactly one
\* featureFlags frame, right behind the handshake echo.
C8_ExactlyOneFlags ==
    (pc = "done" /\ sent # <<>>) => FlagsPlaces = {2}

\* C8 amended: at most one featureFlags frame is sent, and whenever a frame has
\* been sent behind the handshake echo, the first such frame is the featureFlags
\* frame; until then the FeatureFlags response is the head of the Response Channel.
C8_FlagsFirstAtMostOnce ==
    /\ FlagsPlaces = {i \in 1..Len(sent) : i = 2}
    /\ (Len(sent) = 1 /\ chanOpen) => (chan # <<>> /\ Head(chan) = FeatureFlagsResponse)
    /\ \A i \in 1..Len(chan) : chan[i] = FeatureFlagsResponse => (i = 1 /\ Len(sent) = 1)

\* An error frame went out behind the featureFlags frame.
C8_Witness ==
    /\ Len(sent) >= 3
    /\ \E i \in 3..Len(sent) : sent[i].type = TError

\* ------------------------------------------------------------------ C9
IsPrefix(s, t) == Len(s) <= Len(t) /\ \A i \in 1..Len(s) : s[i] = t[i]

\* In seq, job j's ExecuteBegin precedes its output frames, its ExecuteEnd follows
\* them, and the chunks of each stream keep the order in which the backend
\* produced them.
JobOrdered(seq, j) ==
    LET out == Places(seq, TStdout, j) \cup Places(seq, TStderr, j)
        rest == out \cup Places(seq, TEnd, j)
    IN  /\ \A i \in rest : \E b \in Places(seq, TBegin, j) : b < i
        /\ \A e \in Places(seq, TEnd, j) : \A i \in out : i < e
        /\ \A type \in {TStdout, TStderr} :
              \A a, b \in Places(seq, type, j) : a < b => seq[a].chunk < seq[b].chunk

\* C9: on the socket every job's frames are ordered ExecuteBegin, output,
\* ExecuteEnd with each stream's chunks in arrival order, the same holds of the
\* frames still queued behind them, and while the channel is open the sequence
\* of sent and queued frames only ever grows at its tail.
C9_OrderPreserved ==
    /\ [](\A j \in Jobs : JobOrdered(sent, j) /\ JobOrdered(Pipeline, j))
    /\ [][chanOpen' => IsPrefix(Pipeline, Pipeline')]_vars

\* Two stdout chunks of one job and its ExecuteEnd went out.
C9_Witness ==
    \E j \in Jobs :
        /\ Cardinality(Places(sent, TStdout, j)) >= 2
        /\ Places(sent, TEnd, j) # {}

\* ----------------------------------------------------------------- C10
\* C10: after a text frame that does not deserialize, the loop enqueues its Error
\* response and is back at the select, whatever the Response Channel holds.
C10_MalformedFrameAnswered ==
    (pc = "enqueue" /\ pending = ErrResult("Deserialization")) ~> (pc = "select")

\* ----------------------------------------------------------------- C11
\* C11: the idle sleep runs, and so idle() is invoked, only while the task set is
\* empty; whenever the task set is empty no job task holds the backend handle,
\* so the manager is its only owner and no idle() ever fails with
\* OutstandingCoordinatorIdle.
C11_IdleHasSoleOwner ==
    /\ idleClock > 0 => tasks = {}
    /\ tasks = {} => (LiveJobs = {} /\ CoordinatorRefs = 1)
    /\ (pc = "select" /\ tasks = {}) => "outstanding" \notin IdleResults
    /\ ~ErrorReported("OutstandingCoordinatorIdle")

\* idle() was invoked after a job had run, and the backend failed it.
C11_Witness == nJobs > 0 /\ pending = ErrResult("Idle")

\* ----------------------------------------------------------------- C12
\* C12: in a session without jobs, backend idle() is invoked at most once in a
\* period in which the client sends nothing: never a second time before the
\* next inbound frame.
C12_IdleOncePerSilence ==
    (SessionRunning /\ nJobs = 0) => idles <= 1

\* ----------------------------------------------------------------- C13
\* C13: every live job task is in the task set; once the loop has exited every
\* task of the set has its abort requested or has ended; backend shutdown is
\* reached with the manager as the only owner of the handle, so it never fails
\* with OutstandingCoordinatorShutdown; and once session handling has returned no
\* job task is live and nothing more is enqueued or sent.
C13_ShutdownJoinsAll ==
    /\ [](LiveJobs \subseteq tasks)
    /\ [](pc = "joining" => \A j \in tasks : jpc[j] \in Terminal \/ jabort[j] # "none")
    /\ [](coordinator # "leaked")
    /\ []((pc = "done" /\ coordinator # "none") =>
            (coordinator = "shutdown" /\ LiveJobs = {} /\ tasks = {} /\ ~chanOpen))
    /\ [][pc = "done" => (sent' = sent /\ chan' = chan)]_vars

\* The session is over and a task that shutdown aborted in the middle of a poll
\* has been awaited.
C13_Witness ==
    /\ pc = "done" /\ coordinator = "shutdown"
    /\ \E j \in Jobs : jabort[j] = "shutdown" /\ jpc[j] \in {"done_ok", "done_err"}

\* ----------------------------------------------------------------- C14
\* C14: while the loop runs the receiver of the Response Channel is alive, so the
\* loop's own enqueues never see a closed channel; the loop exits only from its
\* select, by a step that takes no request, no task and no fault (peer close,
\* failed socket write, session timer), and never from the enqueue that follows
\* a malformed request, a panic or an idle failure.
C14_LoopExitCauses ==
    /\ [](SessionRunning => chanOpen)
    /\ [][(pc # "joining" /\ pc' = "joining") =>
            /\ pc = "select"
            /\ pending = NoMsg
            /\ tasks' = tasks
            /\ <<nJobs, nBad, nFaults>>' = <<nJobs, nBad, nFaults>>]_vars
    /\ [][pc = "enqueue" => pc' \in {"enqueue", "select"}]_vars

\* The loop is still running after a malformed request and a job panic whose
\* Error went out.
C14_Witness ==
    /\ pc = "select" /\ nBad > 0
    /\ \E i \in 1..Len(sent) : sent[i].type = TError /\ sent[i].text = PanicText("PanicString")

\* ----------------------------------------------------------------- C15
\* The Error responses with text t that are being enqueued, queued or sent.
ErrorCount(t) ==
    Cardinality({i \in 1..Len(Pipeline) : Pipeline[i].type = TError /\ Pipeline[i].text = t})
    + (IF pending.variant = "Err" /\ pending.text = t THEN 1 ELSE 0)

\* The tasks the loop has taken from the task set that panicked with a string.
JoinedStringPanics ==
    {j \in Jobs : jpc[j] = "panicked" /\ j \notin tasks
                  /\ jres[j] \in {"PanicString", "PanicStr"}}

\* C15: while the session runs there is one Error carrying the payload for every
\* joined task that panicked with a string payload and none for a cancelled
\* task; and the loop, having taken such a task, enqueues the Error and is back
\* at its select.
C15_PanicReported ==
    /\ [](SessionRunning => ErrorCount(PanicText("PanicString")) = Cardinality(JoinedStringPanics))
    /\ (pc = "enqueue" /\ pending = ErrResult(PanicText("PanicString"))) ~> (pc = "select")

\* ----------------------------------------------------------------- C16
\* C16: the step that receives a non-text frame changes nothing: not what is
\* sent, queued or being enqueued, not the task set, the cancellation slot or
\* the permits, no job task, and not the time the idle sleep has left.
C16_NonTextFrameNoEffect ==
    [][RecvNoise =>
        /\ UNCHANGED <<pc, sent, chan, chanOpen, pending, tasks, abortSlot, permits,
                       coordinator, spawning, jobVars, backVars>>
        /\ idleClock' = idleClock]_vars

\* ----------------------------------------------------------------- C17
\* C17: for a job whose request fails validation or whose begin_execute fails,
\* no ExecuteBegin, ExecuteStdout, ExecuteStderr or ExecuteEnd is ever sent,
\* queued or being enqueued, and no execution exists.
C17_NoOutputOnEarlyFailure ==
    \A j \in Jobs :
        ((jpc[j] # "none" /\ ~reqValid[j]) \/ jres[j] = "Begin") =>
            /\ \A i \in 1..Len(Pipeline) :
                  Pipeline[i].meta = j => Pipeline[i].type \notin ExecuteTypes
            /\ jmsg[j] = NoMsg
            /\ exec[j] = "none"

\* A job whose begin_execute failed has ended and the loop has taken it.
C17_Witness ==
    \E j \in Jobs : jres[j] = "Begin" /\ jpc[j] = "done_err" /\ j \notin tasks

\* ----------------------------------------------------------------- C18
\* C18: a spawned job does not wait for a permit for ever: it gets past
\* semaphore.acquire() or its abort is requested; every task that has ended has
\* given its permit back, so once no task is live both permits are free.
C18_NoPermitStarvation ==
    /\ \A j \in Jobs :
          (jpc[j] = "acquire") ~> (jpc[j] # "acquire" \/ jabort[j] # "none")
    /\ [](\A j \in Jobs : jpc[j] \in Terminal => ~jpermit[j])
    /\ [](LiveJobs = {} => permits = N_PARALLEL)

\* Both permits are taken and a task whose abort nobody requested waits for one.
C18_Witness ==
    /\ permits = 0
    /\ \E j \in Jobs : jpc[j] = "acquire" /\ jabort[j] = "none"

\* ----------------------------------------------------------------- C19
\* The chunk ids of the frames of one stream of job j, sent, queued or being sent.
Enqueued(type, j) ==
    {Pipeline[i].chunk : i \in Places(Pipeline, type, j)}
    \cup (IF jmsg[j].ok /\ WireType(jmsg[j].variant) = type THEN {jmsg[j].chunk} ELSE {})

\* Every chunk of seq is newer than the chunks in older, and seq is in arrival order.
Behind(older, seq) ==
    /\ \A i \in 1..Len(seq) : \A c \in older : c < seq[i]
    /\ \A a, b \in 1..Len(seq) : a < b => seq[a] < seq[b]

\* C19: after the execution task has completed, the driver turns to stderr only
\* when no stdout chunk is left, and builds ExecuteEnd or returns the error only
\* when no chunk of either stream is left; what is still buffered is newer than
\* everything already enqueued of its stream and is in arrival order.  A driver
\* that found the channel closed is exempt.
C19_DrainBeforeEnd ==
    \A j \in Jobs :
        /\ (jpc[j] = "drain_stderr" \/ (jpc[j] = "send" /\ jnext[j] = "drain_stderr"))
              => stdout_rx[j] = <<>>
        /\ (jres[j] \in {"End", "Completed"} /\ jpc[j] \in {"send", "record"})
              => (stdout_rx[j] = <<>> /\ stderr_rx[j] = <<>>)
        /\ (jmsg[j].ok /\ jmsg[j].variant = "ExecuteEnd")
              => (stdout_rx[j] = <<>> /\ stderr_rx[j] = <<>>)
        /\ Behind(Enqueued(TStdout, j), stdout_rx[j])
        /\ Behind(Enqueued(TStderr, j), stderr_rx[j])

\* The execution task has completed with chunks buffered in both streams; the
\* stdout chunk is enqueued and the stderr chunk is next.
C19_Witness ==
    \E j \in Jobs :
        /\ jpc[j] = "drain_stderr" /\ exec[j] = "completed"
        /\ stderr_rx[j] # <<>>
        /\ Places(Pipeline, TStdout, j) # {}

\* ----------------------------------------------------------------- C20
\* C20: once the receiver of the Response Channel is closed nothing is enqueued
\* any more; the send a driver attempts then fails and the driver goes straight
\* to its return: it is sending nothing, it returns Abandoned, and when its task
\* has ended without being cancelled it ended without an error and recorded
\* outcome Abandoned.  Only a closed channel makes a driver return Abandoned.
C20_AbandonedOnClosedChannel ==
    /\ [][(~chanOpen /\ pc \in {"joining", "done"}) => chan' = chan]_vars
    /\ [][\A j \in Jobs :
            (jpc[j] = "send" /\ ~chanOpen /\ jpc'[j] # "send") =>
                \/ jpc'[j] = "cancelled"
                \/ jpc'[j] = "record" /\ jres'[j] = "Abandoned" /\ jmsg'[j] = NoMsg]_vars
    /\ [](\A j \in Jobs :
            jres[j] = "Abandoned" =>
                /\ ~chanOpen
                /\ jpc[j] \in {"record", "done_ok"}
                /\ jmsg[j] = NoMsg
                /\ jpc[j] = "done_ok" => outcome[j] = "Abandoned")

\* A driver found the channel closed, returned, and its outcome is recorded.
C20_Witness ==
    \E j \in Jobs : jres[j] = "Abandoned" /\ jpc[j] = "done_ok" /\ outcome[j] = "Abandoned"

====
